---- MODULE Spec2Model ----
(***************************************************************************)
(* Model of militery/main.py: the sync engine (background_worker), the     *)
(* discovery and summarization functions it calls, the shared state it     *)
(* publishes (INTEL_CACHE), the outlet registry (TARGET_GRID), the manual  *)
(* trigger (trigger_sync_now), the operational log (SYSTEM_LOGS) and the   *)
(* request handlers and timer jobs that read or write them.                *)
(*                                                                         *)
(* Threads of the program: the event loop (all request handlers, which are *)
(* `async def` without await and so run one at a time), the sync engine    *)
(* thread, the model loader thread and the scheduler's job thread.  Every  *)
(* statement that reads or writes shared state is a step of its own.       *)
(*                                                                         *)
(* SYSTEM_LOGS is written only by add_log and is read by no control flow;  *)
(* its behaviour is specified separately in SpecLog, where each caller is  *)
(* a thread executing add_log, and the other specifications leave it out.  *)
(* The "time" field of an item (wall clock HH:MM) is left out of items.    *)
(*                                                                         *)
(* universal_intercept and get_deep_summary are operators; SpecDiscovery   *)
(* and SpecSummary call them on their own, over more answers of the remote *)
(* sites than the sync engine's specifications let through.                *)
(***************************************************************************)
EXTENDS Integers, Sequences, FiniteSets, TLC

VARIABLES
    TARGET_GRID,        \* the outlet registry, in dict insertion order
    INTEL_CACHE,        \* the published snapshot
    SYNC_INTERVAL_MINS, \* minutes
    trigger_sync_now,   \* the threading.Event's flag
    summarizer,         \* the loaded pipeline, or "None"
    is_model_ready,     \* readiness flag of the summarizer
    load_pc,            \* position of load_ai
    archive_interval,   \* minutes of the scheduler's archive_job
    w_pc,               \* position of background_worker
    temp_cache,         \* its snapshot buffer
    current_targets,    \* its copy of the registry
    w_oi, w_si,         \* its position in the copy: outlet, section
    headlines, w_hi,    \* the current section's candidates, next to take
    wait_timeout,       \* seconds passed to Event.wait
    elapsed,            \* seconds spent in the current wait
    last_wake,          \* history: how the last wait ended
    last_published,     \* history: the last snapshot a cycle completed
    calls_since_wake,   \* history: force_sync calls since the last wake
    calls_after_clear,  \* history: those of them made after the clear
    forced_in_cycle,    \* history: force_sync arrived during this cycle
    edited_in_cycle,    \* history: the registry changed during this cycle
    processed,          \* history: the pairs this cycle has intercepted
    publishes,          \* history: writes of INTEL_CACHE by this cycle
    discovered,         \* history: what each Intercept of this cycle got
    runs,               \* history: the get_deep_summary calls of this cycle
    tracked_call,       \* history: one force_sync call, until it is served
    timer_at_wait,      \* history: SYNC_INTERVAL_MINS when the wait began
    interval_changed,   \* history: update_sync_timer ran during this wait
    timer_req,          \* history: the last timer request and its answer
    fetch_seen,         \* fetch_news: the snapshot it read
    fetch_expected,     \* history: last_published when it read
    fetch_phase,        \* history: w_pc when it read
    fetch_args,         \* fetch_news: its filters
    gen_pc, gen_k, gen_args, gen_doc,       \* generate_intel
    gen_reads,          \* history: the snapshots its loops read
    arc_pc, arc_doc, arc_saved,             \* auto_archive
    SYSTEM_LOGS,        \* the operational log
    log_pc,             \* per thread: position inside add_log
    loader_calls,       \* add_log calls load_ai has made
    log_next,           \* history: serial number of the next entry
    log_evicted,        \* history: the entry the last pop removed
    logs_seen,          \* what a reader of SYSTEM_LOGS last observed
    dis_pc,             \* a call of universal_intercept: its position
    dis_in,             \* its url and what its two requests get
    dis_out,            \* what it returned
    sum_pc,             \* a call of get_deep_summary: its position
    sum_art,            \* the article behind its link
    sum_ready,          \* is_model_ready as line 114 read it
    sum_run             \* what it did and returned

vars == <<TARGET_GRID, INTEL_CACHE, SYNC_INTERVAL_MINS, trigger_sync_now,
          summarizer, is_model_ready, load_pc, archive_interval, w_pc,
          temp_cache,
          current_targets, w_oi, w_si, headlines, w_hi, wait_timeout, elapsed,
          last_wake, last_published, calls_since_wake, calls_after_clear,
          forced_in_cycle, edited_in_cycle, processed, publishes,
          discovered, runs, tracked_call,
          timer_at_wait, interval_changed, timer_req,
          fetch_seen, fetch_expected, fetch_phase, fetch_args,
          gen_pc, gen_k, gen_args, gen_doc, gen_reads,
          arc_pc, arc_doc, arc_saved,
          SYSTEM_LOGS, log_pc, loader_calls, log_next, log_evicted,
          logs_seen, dis_pc, dis_in, dis_out,
          sum_pc, sum_art, sum_ready, sum_run>>

fetchVars == <<fetch_seen, fetch_expected, fetch_phase, fetch_args>>
genVars == <<gen_pc, gen_k, gen_args, gen_doc, gen_reads>>
arcVars == <<arc_pc, arc_doc, arc_saved>>
logVars == <<SYSTEM_LOGS, log_pc, loader_calls, log_next, log_evicted,
            logs_seen>>
discVars == <<dis_pc, dis_in, dis_out>>
sumVars == <<sum_pc, sum_art, sum_ready, sum_run>>
\* the calls of the two functions made outside the sync engine
callVars == <<discVars, sumVars>>
\* what the sync engine, the loader and the writing handlers leave alone
others == <<fetchVars, genVars, arcVars, logVars, callVars>>
\* the groups of coreVars
controlVars == <<SYNC_INTERVAL_MINS, trigger_sync_now, archive_interval,
                 calls_since_wake, calls_after_clear, interval_changed,
                 timer_req>>
loadVars == <<summarizer, is_model_ready, load_pc>>
waitVars == <<wait_timeout, elapsed, last_wake, timer_at_wait>>
cycleVars == <<w_pc, temp_cache, current_targets, w_oi, w_si, headlines,
               w_hi, processed, publishes, discovered, runs>>
histVars == <<last_published, forced_in_cycle, edited_in_cycle,
              tracked_call>>
coreVars == <<TARGET_GRID, INTEL_CACHE, histVars, controlVars, loadVars,
              waitVars, cycleVars>>

(***************************************************************************)
(* Bounds of the model.                                                    *)
(***************************************************************************)
MaxMinutes == 2
MaxCalls == 2
MaxAppends == 32

(***************************************************************************)
(* Program constants.                                                      *)
(***************************************************************************)
LogCapacity == 30
InitialSyncMins == 5
InitialArchiveMins == 15
MinMinutes == 1
SecondsPerMinute == 60
CycleItemCap == 3
HeadlineMinLen == 35
HeadlineMinSpaces == 4
DiscoveryCap == 6
MaxParagraphs == 8
MinTextLen == 200
MaxModelInput == 2500

Max(a, b) == IF a >= b THEN a ELSE b
Min(a, b) == IF a <= b THEN a ELSE b

(***************************************************************************)
(* URLs.  A URL is a string; the tests the code makes on it are tables.    *)
(***************************************************************************)
U_POL == "https://www.prothomalo.com/politics"
U_BIZ == "https://www.prothomalo.com/business"
U_BD == "https://www.prothomalo.com/bangladesh"
U_BBC == "https://www.bbc.com/news"
U_BAD == "http://[prothomalo"
U_EMPTY == ""
PALO_ORIGIN == "https://www.prothomalo.com"

\* '"prothomalo" in url'
HasProthomalo(url) == url \in {U_POL, U_BIZ, U_BD, U_BAD}
\* urlparse(url) raises ValueError("Invalid IPv6 URL") on an unbalanced bracket
UrlparseRaises(url) == url \in {U_BAD}
\* f"{p.scheme}://{p.netloc}"
UrlOrigin(url) ==
    CASE url \in {U_POL, U_BIZ, U_BD} -> PALO_ORIGIN
      [] url = U_BBC -> "https://www.bbc.com"
      [] OTHER -> "://"

(***************************************************************************)
(* Titles, candidates and what the remote sites answer.                    *)
(* A title is its length and its count of ' '; kind "num" is a truthy JSON *)
(* headline that is no string, kind "none" a missing or empty one.         *)
(***************************************************************************)
StrTitle(len, spaces) == [kind |-> "str", len |-> len, spaces |-> spaces]
NumTitle == [kind |-> "num", len |-> 0, spaces |-> 0]
NoTitle == [kind |-> "none", len |-> 0, spaces |-> 0]
Link(origin, path) == [origin |-> origin, path |-> path]

\* One element of the API's 'items': isdict FALSE makes item.get raise.
Story(isdict, headline, slug) ==
    [isdict |-> isdict, headline |-> headline, slug |-> slug]
\* One <a href>: text as get_text() gives it (pad blanks around len
\* characters, spaces of them ' '), href absolute or not.
Anchor(pad, len, spaces, abs, origin, path) ==
    [pad |-> pad, len |-> len, spaces |-> spaces,
     abs |-> abs, origin |-> origin, path |-> path]

\* a.get_text().strip()
StripText(a) == StrTitle(a.len, a.spaces)

\* lines 98-101: href made absolute with the origin of the fetched page
ResolveHref(a, url) ==
    IF a.abs THEN Link(a.origin, a.path) ELSE Link(UrlOrigin(url), a.path)

\* one blank fewer asked for
IsHeadlineThreeSpaces(title) ==
    title.len > HeadlineMinLen /\ title.spaces >= HeadlineMinSpaces - 1

\* the length compared with >=
IsHeadlineFrom35(title) ==
    title.len >= HeadlineMinLen /\ title.spaces >= HeadlineMinSpaces

\* line 97
IsHeadline(title) ==
    title.len > HeadlineMinLen /\ title.spaces >= HeadlineMinSpaces

\* lines 73-76: the loop over data['items']; failed when an item raised
RECURSIVE ApiLoop(_, _, _)
ApiLoop(items, i, news) ==
    IF i > Len(items) THEN [news |-> news, failed |-> FALSE]
    ELSE IF ~items[i].isdict THEN [news |-> news, failed |-> TRUE]
    ELSE IF items[i].headline.kind # "none"
         THEN ApiLoop(items, i + 1,
                      Append(news, [title |-> items[i].headline,
                                    link |-> Link(PALO_ORIGIN, items[i].slug)]))
         ELSE ApiLoop(items, i + 1, news)

\* lines 91-106: the loop over the anchors
RECURSIVE ScanLoop(_, _, _, _)
ScanLoop(anchors, i, news, url) ==
    IF i > Len(anchors) THEN news
    ELSE LET a == anchors[i]
             title == StripText(a)
             href == ResolveHref(a, url)
             added == IF IsHeadline(title)
                         /\ ~(\E k \in 1..Len(news) : news[k].link = href)
                      THEN Append(news, [title |-> title, link |-> href])
                      ELSE news
         IN IF Len(added) >= DiscoveryCap THEN added
            ELSE ScanLoop(anchors, i + 1, added, url)

\* What one call gives: raised when an exception left it, news what it
\* returned, logged whether line 109 ran, from_api how many of news lines
\* 73-76 appended, scanned whether line 82 requested the page.
Result(raised, news, logged, from_api, scanned) ==
    [raised |-> raised, news |-> news, logged |-> logged,
     from_api |-> from_api, scanned |-> scanned]

\* lines 81-111: heuristic mode, entered with what API mode left in news
HeuristicMode(url, news, page) ==
    IF ~page.ok THEN Result(FALSE, news, TRUE, Len(news), TRUE)
    ELSE Result(FALSE, ScanLoop(page.anchors, 1, news, url), FALSE,
                Len(news), TRUE)

\* lines 61-111.  api and page are what the two requests of the call get:
\* ok FALSE is a failed request (or a body that does not parse).
universal_intercept(url, api, page) ==
    IF url = U_EMPTY THEN Result(FALSE, <<>>, FALSE, 0, FALSE)
    ELSE IF HasProthomalo(url)
    THEN IF UrlparseRaises(url)
         THEN Result(TRUE, <<>>, FALSE, 0, FALSE)
         ELSE IF ~api.ok THEN HeuristicMode(url, <<>>, page)
         ELSE LET r == ApiLoop(api.items, 1, <<>>)
              IN IF ~r.failed /\ r.news # <<>>
                 THEN Result(FALSE, r.news, FALSE, Len(r.news), FALSE)
                 ELSE HeuristicMode(url, r.news, page)
    ELSE HeuristicMode(url, <<>>, page)

(***************************************************************************)
(* Summaries.                                                              *)
(***************************************************************************)
SENTINEL_INIT == [kind |-> "initializing", input |-> 0]
SENTINEL_THIN == [kind |-> "insufficient", input |-> 0]
SENTINEL_INTERRUPTED == [kind |-> "interrupted", input |-> 0]
ModelSummary(n) == [kind |-> "summary", input |-> n]

\* An article page: ok FALSE is a failed fetch; paras the lengths of its <p>
\* texts; model_ok FALSE makes the summarizer call raise (as does calling a
\* summarizer that is still None).
Article(ok, paras, model_ok) ==
    [ok |-> ok, paras |-> paras, model_ok |-> model_ok]

\* len(" ".join(p.text for p in paragraphs[:8]))
RECURSIVE JoinedLen(_, _)
JoinedLen(paras, n) ==
    IF n = 0 THEN 0
    ELSE IF n = 1 THEN paras[1]
    ELSE JoinedLen(paras, n - 1) + 1 + paras[n]

\* What one call does: ret is what it returns, fetches its requests.get
\* calls, calls its calls of summarizer, input the length of the text it
\* passed, unset whether summarizer was None when it was called.
Run(ret, fetches, calls, input, unset) ==
    [ret |-> ret, fetches |-> fetches, calls |-> calls, input |-> input,
     unset |-> unset]

\* a text of exactly the minimum taken for thin
TooThinAtMost(txt) == txt <= MinTextLen

\* line 121
TooThin(txt) == txt < MinTextLen

\* the flag taken for set
ModelReadyAssumed(flag) == TRUE

\* line 114: 'is_model_ready' as the test reads it
ModelReady(flag) == flag

\* lines 113-126, with ready as line 114 reads it and summ as line 124 does
DeepSummaryRun(ready, summ, art) ==
    IF ~ModelReady(ready) THEN Run(SENTINEL_INIT, 0, 0, 0, FALSE)
    ELSE IF ~art.ok THEN Run(SENTINEL_INTERRUPTED, 1, 0, 0, FALSE)
    ELSE LET txt == JoinedLen(art.paras, Min(Len(art.paras), MaxParagraphs))
             input == Min(txt, MaxModelInput)
         IN IF TooThin(txt) THEN Run(SENTINEL_THIN, 1, 0, 0, FALSE)
            ELSE IF summ = "None" \/ ~art.model_ok
            THEN Run(SENTINEL_INTERRUPTED, 1, 1, input, summ = "None")
            ELSE Run(ModelSummary(input), 1, 1, input, FALSE)

\* lines 113-126: the value returned
get_deep_summary(ready, summ, art) == DeepSummaryRun(ready, summ, art).ret

(***************************************************************************)
(* The remote sites of the model: what a request may get.                  *)
(***************************************************************************)
GoodTitle == StrTitle(40, 5)
ApiDown == [ok |-> FALSE, items |-> <<>>]
ApiOne == [ok |-> TRUE, items |-> <<Story(TRUE, GoodTitle, "s1")>>]
ApiNum == [ok |-> TRUE, items |-> <<Story(TRUE, NumTitle, "s2")>>]
PageDown == [ok |-> FALSE, anchors |-> <<>>]
PageFour ==
    [ok |-> TRUE,
     anchors |-> <<Anchor(1, 40, 5, FALSE, "", "a1"),
                   Anchor(0, 12, 1, FALSE, "", "menu"),
                   Anchor(0, 40, 5, FALSE, "", "a2"),
                   Anchor(0, 40, 5, FALSE, "", "a1"),
                   Anchor(0, 40, 5, FALSE, "", "a3"),
                   Anchor(0, 40, 5, FALSE, "", "a4")>>]

\* The collections API answers, fails, or sends a headline that is a number.
ApiResponses(url) ==
    IF HasProthomalo(url) /\ ~UrlparseRaises(url)
    THEN {ApiDown, ApiOne, ApiNum} ELSE {ApiDown}
\* The HTML pages: those of prothomalo.com are down whenever its API is;
\* requests.get raises on a URL it cannot parse.
PageResponses(url) ==
    IF url = U_BBC THEN {PageDown, PageFour} ELSE {PageDown}

\* The article behind a link: the same page whenever it is fetched.
ArticleAt(link) ==
    CASE link.path = "a1" -> Article(TRUE, <<120, 120>>, TRUE)
      [] link.path = "a2" -> Article(TRUE, <<100, 98>>, TRUE)
      [] link.path = "s1" -> Article(TRUE, <<3000>>, FALSE)
      [] OTHER -> Article(FALSE, <<>>, TRUE)

(***************************************************************************)
(* The registry: a dict in insertion order.                                *)
(***************************************************************************)
NAME_PA == "Prothom Alo"
NAME_BBC == "BBC"
Names == {NAME_PA, NAME_BBC}

Path(sector, url) == [sector |-> sector, url |-> url]
\* line 237
NationalCfg(name, pol, eco, nat) ==
    [name |-> name, type |-> "national",
     paths |-> <<Path("Politics", pol), Path("Economy", eco),
                 Path("National", nat)>>]
\* line 239
InternationalCfg(name, intl_url) ==
    [name |-> name, type |-> "international",
     paths |-> <<Path("International", intl_url)>>]

\* lines 32-37
InitialGrid == <<NationalCfg(NAME_PA, U_POL, U_BIZ, U_BD)>>

GridNames(grid) == {grid[i].name : i \in 1..Len(grid)}

\* TARGET_GRID[name] = cfg: in place for a known key, at the end for a new one
GridSet(grid, cfg) ==
    IF cfg.name \in GridNames(grid)
    THEN [i \in 1..Len(grid) |->
             IF grid[i].name = cfg.name THEN cfg ELSE grid[i]]
    ELSE Append(grid, cfg)

\* del TARGET_GRID[name]
GridDel(grid, name) == SelectSeq(grid, LAMBDA e : e.name # name)

\* The requests of the model.
AddRequests ==
    {[name |-> NAME_BBC, type |-> "international", pol |-> U_EMPTY,
      eco |-> U_EMPTY, nat |-> U_EMPTY, intl_url |-> U_BBC],
     [name |-> NAME_BBC, type |-> "national", pol |-> U_EMPTY,
      eco |-> U_EMPTY, nat |-> U_EMPTY, intl_url |-> U_EMPTY],
     [name |-> NAME_PA, type |-> "international", pol |-> U_EMPTY,
      eco |-> U_EMPTY, nat |-> U_EMPTY, intl_url |-> U_BAD]}
MinuteRequests == (0 - 1)..MaxMinutes

\* lines 234-240
add_paper(grid, req) ==
    IF req.type = "national"
    THEN GridSet(grid, NationalCfg(req.name, req.pol, req.eco, req.nat))
    ELSE GridSet(grid, InternationalCfg(req.name, req.intl_url))

\* lines 242-245
delete_paper(grid, name) ==
    IF name \in GridNames(grid) THEN GridDel(grid, name) ELSE grid

\* the floor one too low
ClampMinutesAtZero(minutes) == Max(MinMinutes - 1, minutes)

\* max(1, minutes), lines 189 and 201
ClampMinutes(minutes) == Max(MinMinutes, minutes)

(***************************************************************************)
(* background_worker, lines 129-155.                                       *)
(***************************************************************************)
\* line 134: dict(TARGET_GRID)
CopyGrid(grid) == grid

\* the loops iterating TARGET_GRID itself
CycleTargetsLive(copy, live) == live

\* lines 136-137: what the two for loops iterate, the copy and not the
\* live registry
CycleTargets(copy, live) == copy

Targets == CycleTargets(current_targets, TARGET_GRID)

HasPair(t, oi, si) == oi <= Len(t) /\ si <= Len(t[oi].paths)
NextOutlet(t, oi, si) == IF si < Len(t[oi].paths) THEN oi ELSE oi + 1
NextSection(t, oi, si) == IF si < Len(t[oi].paths) THEN si + 1 ELSE 1

\* every (outlet, section) of a registry, in iteration order
RECURSIVE PairsFrom(_, _, _)
PairsFrom(t, oi, si) ==
    IF ~HasPair(t, oi, si) THEN <<>>
    ELSE <<<<t[oi].name, t[oi].paths[si].sector>>>>
         \o PairsFrom(t, NextOutlet(t, oi, si), NextSection(t, oi, si))
AllPairs(t) == PairsFrom(t, 1, 1)

\* the loops giving up once the trigger is set
LoopStopsOnTrigger(flag) == ~flag

\* lines 136-137: the loops run on whatever else the program does
LoopGoesOn(flag) == TRUE

\* line 150 inside the loops: the replace after any pair
MoveToPublish(oi, si) ==
    /\ w_oi' = oi
    /\ w_si' = si
    /\ w_pc' = "publish"

\* the position after (oi, si): the next pair's Intercept, or line 150
MoveTo(oi, si) ==
    /\ w_oi' = oi
    /\ w_si' = si
    /\ w_pc' = IF HasPair(Targets', oi, si) /\ LoopGoesOn(trigger_sync_now)
               THEN "intercept" ELSE "publish"

\* the item appended to the published list as well
AppendItemShared(cache, temp, item) ==
    [cache |-> Append(temp, item), temp |-> Append(temp, item)]

\* lines 144-148: the item goes to the buffer, the published list is not
\* touched
AppendItem(cache, temp, item) ==
    [cache |-> cache, temp |-> Append(temp, item)]

\* history of one call at line 143: the flag when it was made, the link and
\* what the call did
SummaryCall(ready, summ, link) ==
    [ready |-> ready, link |-> link,
     run |-> DeepSummaryRun(ready, summ, ArticleAt(link))]

\* every candidate taken
TakeAll(n) == n

\* line 141: how many of n candidates headlines[:3] holds
TakeCount(n) == Min(CycleItemCap, n)

MakeItem(cand, outlet, sector, summary) ==
    [title |-> cand.title, link |-> cand.link, source |-> outlet.name,
     sector |-> sector, summary |-> summary, type |-> outlet.type]

\* lines 131-134
StartCycle ==
    /\ w_pc = "start"
    /\ temp_cache' = <<>>
    /\ current_targets' = CopyGrid(TARGET_GRID)
    /\ headlines' = <<>>
    /\ w_hi' = 1
    /\ processed' = <<>>
    /\ publishes' = 0
    /\ discovered' = <<>>
    /\ runs' = <<>>
    /\ forced_in_cycle' = FALSE
    /\ edited_in_cycle' = FALSE
    /\ tracked_call' = IF tracked_call = "called" THEN "copied"
                       ELSE tracked_call
    /\ UNCHANGED TARGET_GRID
    /\ MoveTo(1, 1)
    /\ UNCHANGED <<INTEL_CACHE, last_published>>
    /\ UNCHANGED <<controlVars, loadVars, waitVars>>
    /\ UNCHANGED others

\* lines 138-139, and line 141 when there is nothing to take
Intercept ==
    /\ w_pc = "intercept"
    /\ HasPair(Targets, w_oi, w_si)
    /\ LET outlet == Targets[w_oi]
           path == outlet.paths[w_si]
       IN \E api \in ApiResponses(path.url), page \in PageResponses(path.url) :
            LET r == universal_intercept(path.url, api, page)
            IN /\ processed' = Append(processed, <<outlet.name, path.sector>>)
               /\ discovered' = IF r.raised THEN discovered
                                 ELSE Append(discovered, r.news)
               /\ UNCHANGED <<TARGET_GRID, current_targets>>
               /\ IF r.raised
                  THEN /\ w_pc' = "dead"
                       /\ UNCHANGED <<headlines, w_hi, w_oi, w_si>>
                  ELSE IF r.news = <<>>
                  THEN /\ UNCHANGED <<headlines, w_hi>>
                       /\ MoveTo(NextOutlet(Targets, w_oi, w_si),
                                 NextSection(Targets, w_oi, w_si))
                  ELSE /\ headlines' = r.news
                       /\ w_hi' = 1
                       /\ w_pc' = "synth"
                       /\ UNCHANGED <<w_oi, w_si>>
    /\ UNCHANGED <<INTEL_CACHE, last_published, temp_cache, forced_in_cycle,
                   edited_in_cycle, publishes, runs, tracked_call>>
    /\ UNCHANGED <<controlVars, loadVars, waitVars>>
    /\ UNCHANGED others

\* lines 141-148 for one item of headlines[:3]
Synthesize ==
    /\ w_pc = "synth"
    /\ HasPair(Targets, w_oi, w_si)
    /\ UNCHANGED <<TARGET_GRID, current_targets>>
    /\ LET cand == headlines[w_hi]
           outlet == Targets[w_oi]
           sector == outlet.paths[w_si].sector
       IN IF cand.title.kind # "str"
          THEN \* line 142: item['title'][:40] raises TypeError
               /\ w_pc' = "dead"
               /\ UNCHANGED <<INTEL_CACHE, temp_cache, headlines, w_hi,
                              w_oi, w_si, runs>>
          ELSE LET summary == get_deep_summary(is_model_ready, summarizer,
                                               ArticleAt(cand.link))
                   r == AppendItem(INTEL_CACHE, temp_cache,
                                   MakeItem(cand, outlet, sector, summary))
               IN /\ temp_cache' = r.temp
                  /\ INTEL_CACHE' = r.cache
                  /\ runs' = Append(runs, SummaryCall(is_model_ready,
                                                     summarizer, cand.link))
                  /\ IF w_hi < TakeCount(Len(headlines))
                     THEN /\ w_hi' = w_hi + 1
                          /\ UNCHANGED <<headlines, w_oi, w_si, w_pc>>
                     ELSE /\ headlines' = <<>>
                          /\ w_hi' = 1
                          /\ MoveTo(NextOutlet(Targets, w_oi, w_si),
                                    NextSection(Targets, w_oi, w_si))
    /\ UNCHANGED <<histVars, processed, publishes, discovered>>
    /\ UNCHANGED <<controlVars, loadVars, waitVars>>
    /\ UNCHANGED others

\* line 150
Publish ==
    /\ w_pc = "publish"
    /\ INTEL_CACHE' = temp_cache
    /\ last_published' = temp_cache
    /\ publishes' = publishes + 1
    /\ w_pc' = "enter_wait"
    /\ tracked_call' = IF tracked_call = "copied" THEN "none"
                       ELSE tracked_call
    /\ UNCHANGED <<TARGET_GRID, forced_in_cycle, edited_in_cycle, temp_cache,
                   current_targets, w_oi, w_si, headlines, w_hi, processed,
                   discovered, runs>>
    /\ UNCHANGED <<controlVars, loadVars, waitVars>>
    /\ UNCHANGED others

\* line 154: the timeout is computed when wait is called
WaitTimeout(minutes) == minutes * SecondsPerMinute

\* the wait measured against the interval as it is now
WaitExpiredLive(timeout, live_minutes, t) ==
    t >= live_minutes * SecondsPerMinute

\* Event.wait(timeout) gives up once the timeout it was called with has
\* passed; the interval set meanwhile plays no part
WaitExpired(timeout, live_minutes, t) == t >= timeout

\* line 154, the call
EnterWait ==
    /\ w_pc = "enter_wait"
    /\ wait_timeout' = WaitTimeout(SYNC_INTERVAL_MINS)
    /\ timer_at_wait' = SYNC_INTERVAL_MINS
    /\ interval_changed' = FALSE
    /\ elapsed' = 0
    /\ w_pc' = "waiting"
    /\ UNCHANGED <<TARGET_GRID, INTEL_CACHE, histVars,
                   temp_cache, current_targets, w_oi, w_si, headlines, w_hi,
                   processed, publishes, discovered, runs, last_wake>>
    /\ UNCHANGED <<SYNC_INTERVAL_MINS, trigger_sync_now, archive_interval,
                   calls_since_wake, calls_after_clear, timer_req>>
    /\ UNCHANGED loadVars
    /\ UNCHANGED others

\* a minute passes in the wait
Tick ==
    /\ w_pc = "waiting"
    /\ ~trigger_sync_now
    /\ ~WaitExpired(wait_timeout, SYNC_INTERVAL_MINS, elapsed)
    /\ elapsed' = elapsed + SecondsPerMinute
    /\ UNCHANGED <<TARGET_GRID, INTEL_CACHE, histVars,
                   wait_timeout, last_wake, timer_at_wait>>
    /\ UNCHANGED <<controlVars, loadVars, cycleVars>>
    /\ UNCHANGED others

\* history of a wait: what ended it, the force_sync calls since the wake
\* before (and those of them after the clear), the seconds waited, the
\* interval when the wait began and whether it was changed meanwhile
NoWake == [by |-> "none", since |-> 0, after |-> 0, elapsed |-> 0,
           timer |-> 0, changed |-> FALSE]
WakeRecord(by) ==
    [by |-> by, since |-> calls_since_wake, after |-> calls_after_clear,
     elapsed |-> elapsed, timer |-> timer_at_wait,
     changed |-> interval_changed]

Woken(by) ==
    /\ w_pc' = "woken"
    /\ last_wake' = WakeRecord(by)
    /\ calls_since_wake' = 0
    /\ calls_after_clear' = 0
    /\ wait_timeout' = 0
    /\ elapsed' = 0
    /\ timer_at_wait' = 0
    /\ interval_changed' = FALSE
    /\ UNCHANGED <<TARGET_GRID, INTEL_CACHE, histVars,
                   temp_cache, current_targets, w_oi, w_si,
                   headlines, w_hi, processed, publishes, discovered, runs>>
    /\ UNCHANGED <<SYNC_INTERVAL_MINS, trigger_sync_now, archive_interval,
                   timer_req>>
    /\ UNCHANGED loadVars
    /\ UNCHANGED others

\* line 154, wait returns: True when the flag is set, False when the timeout
\* has passed with the flag unset
Wake ==
    /\ w_pc = "waiting"
    /\ trigger_sync_now
       \/ WaitExpired(wait_timeout, SYNC_INTERVAL_MINS, elapsed)
    /\ Woken(IF trigger_sync_now THEN "trigger" ELSE "timeout")

\* a clear that leaves the flag as it is
ClearEventKeeps(flag) == flag

\* Event.clear()
ClearEvent(flag) == FALSE
\* Event.set()
SetEvent(flag) == TRUE

\* line 155
ClearTrigger ==
    /\ w_pc = "woken"
    /\ trigger_sync_now' = ClearEvent(trigger_sync_now)
    /\ w_pc' = "start"
    /\ UNCHANGED <<TARGET_GRID, INTEL_CACHE, histVars,
                   temp_cache, current_targets, w_oi, w_si, headlines, w_hi,
                   processed, publishes, discovered, runs>>
    /\ last_wake' = NoWake
    /\ UNCHANGED <<SYNC_INTERVAL_MINS, archive_interval, calls_since_wake,
                   calls_after_clear, interval_changed, timer_req>>
    /\ UNCHANGED <<loadVars, wait_timeout, elapsed, timer_at_wait>>
    /\ UNCHANGED others

Worker ==
    \/ StartCycle
    \/ Intercept
    \/ Synthesize
    \/ Publish
    \/ EnterWait
    \/ Tick
    \/ Wake
    \/ ClearTrigger

(***************************************************************************)
(* load_ai, lines 48-58.                                                   *)
(***************************************************************************)
\* the pipeline bound to a local name, the global left as it was
LoadedNowhere == "None"

\* line 52: what the global summarizer holds after the assignment
LoadedModel == "pipeline"

\* line 52
LoadPipeline ==
    /\ load_pc = "loading"
    /\ summarizer' = LoadedModel
    /\ load_pc' = "loaded"
    /\ UNCHANGED is_model_ready
    /\ UNCHANGED <<TARGET_GRID, INTEL_CACHE, histVars,
                   controlVars, waitVars, cycleVars>>
    /\ UNCHANGED others

\* line 53
SetReady ==
    /\ load_pc = "loaded"
    /\ is_model_ready' = TRUE
    /\ load_pc' = "done"
    /\ UNCHANGED summarizer
    /\ UNCHANGED <<TARGET_GRID, INTEL_CACHE, histVars,
                   controlVars, waitVars, cycleVars>>
    /\ UNCHANGED others

\* lines 55-56: pipeline() raised
LoadFails ==
    /\ load_pc = "loading"
    /\ load_pc' = "failed"
    /\ UNCHANGED <<summarizer, is_model_ready>>
    /\ UNCHANGED <<TARGET_GRID, INTEL_CACHE, histVars,
                   controlVars, waitVars, cycleVars>>
    /\ UNCHANGED others

LoadAi == LoadPipeline \/ SetReady \/ LoadFails

(***************************************************************************)
(* The request handlers.  They run on the event loop, one at a time.       *)
(***************************************************************************)
EventLoopFree == gen_pc = "idle"
Running == {"intercept", "synth", "publish"}

\* lines 234-240
AddPaper ==
    /\ EventLoopFree
    /\ \E req \in AddRequests : TARGET_GRID' = add_paper(TARGET_GRID, req)
    /\ edited_in_cycle' = (edited_in_cycle
                           \/ (w_pc \in Running /\ TARGET_GRID' # TARGET_GRID))
    /\ UNCHANGED <<INTEL_CACHE, last_published, forced_in_cycle,
                   tracked_call, controlVars, loadVars, waitVars, cycleVars>>
    /\ UNCHANGED others

\* lines 242-245
DeletePaper ==
    /\ EventLoopFree
    /\ \E name \in Names : TARGET_GRID' = delete_paper(TARGET_GRID, name)
    /\ edited_in_cycle' = (edited_in_cycle
                           \/ (w_pc \in Running /\ TARGET_GRID' # TARGET_GRID))
    /\ UNCHANGED <<INTEL_CACHE, last_published, forced_in_cycle,
                   tracked_call, controlVars, loadVars, waitVars, cycleVars>>
    /\ UNCHANGED others

\* lines 186-191
UpdateSyncTimer ==
    /\ EventLoopFree
    /\ \E minutes \in MinuteRequests :
         /\ SYNC_INTERVAL_MINS' = ClampMinutes(minutes)
         /\ timer_req' = [op |-> "sync", minutes |-> minutes,
                          status |-> "success"]
    /\ interval_changed' = (interval_changed
                            \/ (w_pc = "waiting"
                                /\ SYNC_INTERVAL_MINS' # timer_at_wait))
    /\ UNCHANGED <<trigger_sync_now, archive_interval, calls_since_wake,
                   calls_after_clear>>
    /\ UNCHANGED <<TARGET_GRID, INTEL_CACHE, histVars,
                   loadVars, waitVars, cycleVars>>
    /\ UNCHANGED others

\* lines 199-203
UpdateArchiveTimer ==
    /\ EventLoopFree
    /\ \E minutes \in MinuteRequests :
         /\ archive_interval' = ClampMinutes(minutes)
         /\ timer_req' = [op |-> "archive", minutes |-> minutes,
                          status |-> "success"]
    /\ UNCHANGED <<SYNC_INTERVAL_MINS, trigger_sync_now, calls_since_wake,
                   calls_after_clear, interval_changed>>
    /\ UNCHANGED <<TARGET_GRID, INTEL_CACHE, histVars,
                   loadVars, waitVars, cycleVars>>
    /\ UNCHANGED others

\* lines 193-197
ForceSync ==
    /\ EventLoopFree
    /\ calls_since_wake < MaxCalls
    /\ trigger_sync_now' = SetEvent(trigger_sync_now)
    /\ calls_since_wake' = calls_since_wake + 1
    /\ calls_after_clear' = IF w_pc = "woken" THEN calls_after_clear
                            ELSE calls_after_clear + 1
    /\ forced_in_cycle' = (forced_in_cycle \/ w_pc \in Running)
    /\ tracked_call' \in IF tracked_call = "none" THEN {"none", "called"}
                          ELSE {tracked_call}
    /\ UNCHANGED edited_in_cycle
    /\ UNCHANGED <<SYNC_INTERVAL_MINS, archive_interval, interval_changed,
                   timer_req>>
    /\ UNCHANGED <<TARGET_GRID, INTEL_CACHE, last_published, loadVars,
                   waitVars, cycleVars>>
    /\ UNCHANGED others

Handlers ==
    \/ AddPaper
    \/ DeletePaper
    \/ UpdateSyncTimer
    \/ UpdateArchiveTimer
    \/ ForceSync

(***************************************************************************)
(* fetch_news, lines 180-184: one read of INTEL_CACHE.                     *)
(***************************************************************************)
AllSectors == {"Politics", "Economy", "National", "International"}
FetchRequests ==
    {[sources |-> Names, sectors |-> AllSectors],
     [sources |-> {NAME_BBC}, sectors |-> {}]}

\* line 183
fetch_news(cache, req) ==
    SelectSeq(cache, LAMBDA n : /\ n.source \in req.sources
                                /\ (n.sector \in req.sectors
                                    \/ n.type = "international"))

FetchNews ==
    /\ EventLoopFree
    /\ \E req \in FetchRequests : fetch_args' = req
    /\ fetch_seen' = INTEL_CACHE
    /\ fetch_expected' = last_published
    /\ fetch_phase' = w_pc
    /\ UNCHANGED <<coreVars, callVars, genVars, arcVars, logVars>>

\* the "news" of the response
FetchResponse == fetch_news(fetch_seen, fetch_args)

(***************************************************************************)
(* generate_intel, lines 205-232.  Each for loop reads INTEL_CACHE when it *)
(* starts and iterates the list it got.                                    *)
(***************************************************************************)
SectorOrder == <<"Politics", "National", "Economy">>
GenRequests ==
    {[sources |-> Names, sectors |-> {"Politics", "National", "Economy"}],
     [sources |-> {NAME_PA}, sectors |-> {"Politics", "Economy"}]}

Entry(section, n) == [section |-> section, item |-> n]

Entries(kept, section) ==
    [i \in 1..Len(kept) |-> Entry(section, kept[i])]

\* lines 213-217
InternationalPart(cache, req) ==
    LET keep(n) == n.source \in req.sources /\ n.type = "international"
    IN Entries(SelectSeq(cache, keep), "international")

\* lines 222-228 for one sector
SectorPart(cache, req, sec) ==
    LET keep(n) == n.source \in req.sources /\ n.sector = sec
    IN IF sec \in req.sectors
       THEN Entries(SelectSeq(cache, keep), sec)
       ELSE <<>>

\* the report a snapshot gives
ReportOf(cache, req) ==
    InternationalPart(cache, req) \o SectorPart(cache, req, SectorOrder[1])
    \o SectorPart(cache, req, SectorOrder[2])
    \o SectorPart(cache, req, SectorOrder[3])

\* lines 207-212
GenStart ==
    /\ gen_pc = "idle"
    /\ \E req \in GenRequests : gen_args' = req
    /\ gen_doc' = <<>>
    /\ gen_reads' = {}
    /\ gen_k' = 1
    /\ gen_pc' = "intl"
    /\ UNCHANGED <<coreVars, callVars, fetchVars, arcVars, logVars>>

\* lines 213-217
GenInternational ==
    /\ gen_pc = "intl"
    /\ gen_reads' = {INTEL_CACHE}
    /\ gen_doc' = gen_doc \o InternationalPart(INTEL_CACHE, gen_args)
    /\ gen_pc' = "sector"
    /\ UNCHANGED <<gen_k, gen_args>>
    /\ UNCHANGED <<coreVars, callVars, fetchVars, arcVars, logVars>>

\* lines 221-228, one pass of the loop over the sectors
GenSector ==
    /\ gen_pc = "sector"
    /\ gen_doc' = gen_doc \o SectorPart(INTEL_CACHE, gen_args,
                                        SectorOrder[gen_k])
    /\ IF gen_k < Len(SectorOrder)
       THEN gen_k' = gen_k + 1 /\ gen_pc' = "sector"
       ELSE gen_k' = 1 /\ gen_pc' = "save"
    /\ gen_reads' = IF SectorOrder[gen_k] \in gen_args.sectors
                    THEN gen_reads \cup {INTEL_CACHE} ELSE gen_reads
    /\ UNCHANGED gen_args
    /\ UNCHANGED <<coreVars, callVars, fetchVars, arcVars, logVars>>

\* lines 230-232
GenSave ==
    /\ gen_pc = "save"
    /\ gen_pc' = "idle"
    /\ gen_doc' = <<>>
    /\ gen_reads' = {}
    /\ UNCHANGED <<gen_k, gen_args>>
    /\ UNCHANGED <<coreVars, callVars, fetchVars, arcVars, logVars>>

GenerateIntel == GenStart \/ GenInternational \/ GenSector \/ GenSave

(***************************************************************************)
(* auto_archive, lines 160-169, run by the scheduler's thread.             *)
(***************************************************************************)
NoReport == [written |-> FALSE, items |-> 0]

\* line 161
ArcTick ==
    /\ arc_pc = "idle"
    /\ arc_pc' = IF INTEL_CACHE = <<>> THEN "idle" ELSE "build"
    /\ UNCHANGED <<arc_doc, arc_saved>>
    /\ UNCHANGED <<coreVars, callVars, fetchVars, genVars, logVars>>

\* lines 162-167
ArcBuild ==
    /\ arc_pc = "build"
    /\ arc_doc' = [i \in 1..Len(INTEL_CACHE) |->
                     [source |-> INTEL_CACHE[i].source,
                      title |-> INTEL_CACHE[i].title,
                      summary |-> INTEL_CACHE[i].summary]]
    /\ arc_pc' = "save"
    /\ UNCHANGED arc_saved
    /\ UNCHANGED <<coreVars, callVars, fetchVars, genVars, logVars>>

\* lines 168-169
ArcSave ==
    /\ arc_pc = "save"
    /\ arc_saved' = [written |-> TRUE, items |-> Len(arc_doc)]
    /\ arc_doc' = <<>>
    /\ arc_pc' = "idle"
    /\ UNCHANGED <<coreVars, callVars, fetchVars, genVars, logVars>>

AutoArchive == ArcTick \/ ArcBuild \/ ArcSave

(***************************************************************************)
(* add_log, lines 39-45, and the readers of SYSTEM_LOGS.  An entry is its  *)
(* serial number in append order.                                          *)
(***************************************************************************)
T_ENGINE == "sync_engine"
T_LOADER == "model_loader"
T_ARCHIVER == "archiver"
T_LOOP == "event_loop"
LogThreads == {T_ENGINE, T_LOADER, T_ARCHIVER, T_LOOP}
LoaderLogCalls == 2

\* line 44
AddLogAppend(t) ==
    /\ log_pc[t] = "idle"
    /\ log_next <= MaxAppends
    /\ t = T_LOADER => loader_calls < LoaderLogCalls
    /\ SYSTEM_LOGS' = Append(SYSTEM_LOGS, log_next)
    /\ log_next' = log_next + 1
    /\ loader_calls' = IF t = T_LOADER THEN loader_calls + 1 ELSE loader_calls
    /\ log_pc' = [log_pc EXCEPT ![t] = "appended"]
    /\ UNCHANGED <<log_evicted, logs_seen>>

\* line 45
AddLogTrim(t) ==
    /\ log_pc[t] = "appended"
    /\ IF Len(SYSTEM_LOGS) > LogCapacity
       THEN /\ SYSTEM_LOGS' = Tail(SYSTEM_LOGS)
            /\ log_evicted' = Head(SYSTEM_LOGS)
       ELSE UNCHANGED <<SYSTEM_LOGS, log_evicted>>
    /\ log_pc' = [log_pc EXCEPT ![t] = "idle"]
    /\ UNCHANGED <<log_next, loader_calls, logs_seen>>

\* line 184: the handler hands SYSTEM_LOGS to the response
ReadLogs ==
    /\ log_pc[T_LOOP] = "idle"
    /\ logs_seen' = SYSTEM_LOGS
    /\ UNCHANGED <<SYSTEM_LOGS, log_pc, loader_calls, log_next, log_evicted>>

LogAppend ==
    /\ \E t \in LogThreads : AddLogAppend(t)
    /\ UNCHANGED <<coreVars, callVars, fetchVars, genVars, arcVars>>

LogTrim ==
    /\ \E t \in LogThreads : AddLogTrim(t)
    /\ UNCHANGED <<coreVars, callVars, fetchVars, genVars, arcVars>>

LogReader ==
    /\ ReadLogs
    /\ UNCHANGED <<coreVars, callVars, fetchVars, genVars, arcVars>>

(***************************************************************************)
(* A call of universal_intercept on its own, lines 61-111, with the        *)
(* answers its two requests can get.                                       *)
(***************************************************************************)
\* The visible text of an anchor: words of the given lengths, gap blanks
\* between two of them.
Text(words, gap) == [words |-> words, gap |-> gap]
NoText == Text(<<>>, 0)

RECURSIVE SumSeq(_, _)
SumSeq(s, n) == IF n = 0 THEN 0 ELSE SumSeq(s, n - 1) + s[n]

\* len(title.split())
TextWords(t) == Len(t.words)
\* title.count(' ')
TextSpaces(t) == IF t.words = <<>> THEN 0 ELSE t.gap * (Len(t.words) - 1)
\* len(title)
TextLen(t) == SumSeq(t.words, Len(t.words)) + TextSpaces(t)

\* <a href="path"> text </a>, blanks around the text
TextAnchor(t, path) ==
    Anchor(1, TextLen(t), TextSpaces(t), FALSE, "", path)

\* 36 characters: 4 words, 5 words, 3 words, 4 words two blanks apart
T36W4 == Text(<<9, 8, 8, 8>>, 1)
T36W5 == Text(<<8, 6, 6, 6, 6>>, 1)
T36W3 == Text(<<12, 11, 11>>, 1)
T36W4Wide == Text(<<8, 8, 7, 7>>, 2)
\* 35 characters: 5 words, 10 words
T35W5 == Text(<<7, 6, 6, 6, 6>>, 1)
T35W10 == Text(<<4, 3, 3, 3, 3, 2, 2, 2, 2, 2>>, 1)
\* a long single word, a sentence, a menu entry
T50W1 == Text(<<50>>, 1)
T40W6 == Text(<<10, 5, 5, 5, 5, 5>>, 1)
T12W2 == Text(<<6, 5>>, 1)
DiscTexts ==
    {T36W4, T36W5, T36W3, T36W4Wide, T35W5, T35W10, T50W1, T40W6, T12W2}

\* a page whose only anchor has the text t
TextPage(t) == [ok |-> TRUE, anchors |-> <<TextAnchor(t, "t1")>>]
\* eight headlines with eight links
PageEight ==
    [ok |-> TRUE,
     anchors |-> [i \in 1..8 |->
                     Anchor(0, 40, 5, FALSE, "",
                            <<"a1", "a2", "a3", "a4",
                              "a5", "a6", "a7", "a8">>[i])]]
\* an absolute link to a story of prothomalo.com, then a relative one
PageAbs ==
    [ok |-> TRUE,
     anchors |-> <<Anchor(0, 40, 5, TRUE, PALO_ORIGIN, "s1"),
                   Anchor(0, 40, 5, FALSE, "", "a1")>>]

PageSource(page, text) == [page |-> page, text |-> text]
DiscPages(url) ==
    IF url \in {U_EMPTY, U_BAD} THEN {PageSource(PageDown, NoText)}
    ELSE {PageSource(PageDown, NoText), PageSource(PageFour, NoText),
          PageSource(PageEight, NoText), PageSource(PageAbs, NoText)}
         \cup {PageSource(TextPage(t), t) : t \in DiscTexts}

\* The collections API: no item, the same story twice, more stories than
\* asked for, an item whose story is null after a good one.
ApiEmpty == [ok |-> TRUE, items |-> <<>>]
ApiDup ==
    [ok |-> TRUE,
     items |-> <<Story(TRUE, GoodTitle, "s1"), Story(TRUE, GoodTitle, "s1")>>]
ApiSeven ==
    [ok |-> TRUE,
     items |-> [i \in 1..7 |->
                   Story(TRUE, GoodTitle,
                         <<"s1", "s2", "s3", "s4", "s5", "s6", "s7">>[i])]]
ApiPartial ==
    [ok |-> TRUE,
     items |-> <<Story(TRUE, GoodTitle, "s1"), Story(FALSE, NoTitle, "")>>]
DiscApis(url) ==
    IF HasProthomalo(url) /\ ~UrlparseRaises(url)
    THEN {ApiDown, ApiOne, ApiNum, ApiEmpty, ApiDup, ApiSeven, ApiPartial}
    ELSE {ApiDown}
DiscUrls == {U_EMPTY, U_POL, U_BIZ, U_BBC, U_BAD}

NoCall == [url |-> U_EMPTY, api |-> ApiDown, page |-> PageDown,
           text |-> NoText]
NoResult == Result(FALSE, <<>>, FALSE, 0, FALSE)

\* the call, from line 62 to the return or the exception
DisCall ==
    /\ dis_pc = "idle"
    /\ \E url \in DiscUrls :
         \E api \in DiscApis(url), src \in DiscPages(url) :
           /\ dis_in' = [url |-> url, api |-> api, page |-> src.page,
                         text |-> src.text]
           /\ dis_out' = universal_intercept(url, api, src.page)
    /\ dis_pc' = "returned"
    /\ UNCHANGED <<coreVars, fetchVars, genVars, arcVars, logVars, sumVars>>

\* the caller has taken the result
DisReturn ==
    /\ dis_pc = "returned"
    /\ dis_pc' = "idle"
    /\ dis_in' = NoCall
    /\ dis_out' = NoResult
    /\ UNCHANGED <<coreVars, fetchVars, genVars, arcVars, logVars, sumVars>>

(***************************************************************************)
(* A call of get_deep_summary on its own, lines 113-126, while load_ai     *)
(* runs in its thread: line 114 reads is_model_ready, line 124 reads       *)
(* summarizer.                                                             *)
(***************************************************************************)
NoArticle == Article(FALSE, <<>>, TRUE)
NoRun == Run(SENTINEL_INIT, 0, 0, 0, FALSE)

\* n paragraphs of len characters each
Paras(n, len) == [i \in 1..n |-> len]
\* The <p> texts of the pages: joined they are 199, 200, 2500, 2501 and
\* 3207 characters long; nine paragraphs whose first eight give 199 and
\* 200; no paragraph at all.
SumParas ==
    {<<100, 98>>, <<100, 99>>, <<199>>, <<200>>, <<2500>>, <<2501>>,
     Paras(8, 400), Paras(8, 24) \o <<500>>,
     <<25>> \o Paras(7, 24) \o <<500>>, <<>>}
SumArticles ==
    {Article(FALSE, <<>>, TRUE)}
    \cup {Article(TRUE, ps, ok) : ps \in SumParas, ok \in BOOLEAN}

\* line 114
SumCall ==
    /\ sum_pc = "idle"
    /\ \E art \in SumArticles : sum_art' = art
    /\ sum_ready' = is_model_ready
    /\ IF ModelReady(is_model_ready)
       THEN /\ sum_pc' = "body"
            /\ sum_run' = NoRun
       ELSE /\ sum_pc' = "returned"
            /\ sum_run' = DeepSummaryRun(is_model_ready, summarizer, sum_art')
    /\ UNCHANGED <<coreVars, fetchVars, genVars, arcVars, logVars, discVars>>

\* lines 115-126
SumBody ==
    /\ sum_pc = "body"
    /\ sum_run' = DeepSummaryRun(sum_ready, summarizer, sum_art)
    /\ sum_pc' = "returned"
    /\ UNCHANGED <<sum_art, sum_ready>>
    /\ UNCHANGED <<coreVars, fetchVars, genVars, arcVars, logVars, discVars>>

\* the caller has taken the result
SumReturn ==
    /\ sum_pc = "returned"
    /\ sum_pc' = "idle"
    /\ sum_art' = NoArticle
    /\ sum_ready' = FALSE
    /\ sum_run' = NoRun
    /\ UNCHANGED <<coreVars, fetchVars, genVars, arcVars, logVars, discVars>>

DeepSummary == SumCall \/ SumBody \/ SumReturn

(***************************************************************************)
(* The specifications.                                                     *)
(***************************************************************************)
NoRequest == [op |-> "none", minutes |-> 0, status |-> "none"]

Init ==
    /\ TARGET_GRID = InitialGrid
    /\ INTEL_CACHE = <<>>
    /\ SYNC_INTERVAL_MINS = InitialSyncMins
    /\ trigger_sync_now = FALSE
    /\ summarizer = "None"
    /\ is_model_ready = FALSE
    /\ load_pc = "loading"
    /\ archive_interval = InitialArchiveMins
    /\ w_pc = "start"
    /\ temp_cache = <<>>
    /\ current_targets = <<>>
    /\ w_oi = 1
    /\ w_si = 1
    /\ headlines = <<>>
    /\ w_hi = 1
    /\ wait_timeout = 0
    /\ elapsed = 0
    /\ last_wake = NoWake
    /\ last_published = <<>>
    /\ calls_since_wake = 0
    /\ calls_after_clear = 0
    /\ forced_in_cycle = FALSE
    /\ edited_in_cycle = FALSE
    /\ processed = <<>>
    /\ publishes = 0
    /\ discovered = <<>>
    /\ runs = <<>>
    /\ tracked_call = "none"
    /\ timer_at_wait = 0
    /\ interval_changed = FALSE
    /\ timer_req = NoRequest
    /\ fetch_seen = <<>>
    /\ fetch_expected = <<>>
    /\ fetch_phase = "none"
    /\ fetch_args = [sources |-> {}, sectors |-> {}]
    /\ gen_pc = "idle"
    /\ gen_k = 1
    /\ gen_args = [sources |-> {}, sectors |-> {}]
    /\ gen_doc = <<>>
    /\ gen_reads = {}
    /\ arc_pc = "idle"
    /\ arc_doc = <<>>
    /\ arc_saved = NoReport
    /\ SYSTEM_LOGS = <<>>
    /\ log_pc = [t \in LogThreads |-> "idle"]
    /\ loader_calls = 0
    /\ log_next = 1
    /\ log_evicted = 0
    /\ logs_seen = <<>>
    /\ dis_pc = "idle"
    /\ dis_in = NoCall
    /\ dis_out = NoResult
    /\ sum_pc = "idle"
    /\ sum_art = NoArticle
    /\ sum_ready = FALSE
    /\ sum_run = NoRun

(* Handlers that write disjoint parts of the state commute, so each        *)
(* specification holds the sync engine and the requests its claims are     *)
(* about.                                                                  *)

\* the sync engine, the model loader and the registry requests
Next == Worker \/ LoadAi \/ AddPaper \/ DeletePaper
Spec == Init /\ [][Next]_vars

\* the sync engine, the model loader and fetch_news
NextFetch == Worker \/ LoadAi \/ FetchNews
SpecFetch == Init /\ [][NextFetch]_vars

\* the sync engine, the manual trigger and the sync timer
NextSync == Worker \/ ForceSync \/ UpdateSyncTimer
SpecSync == Init /\ [][NextSync]_vars

\* the same, the engine's thread being scheduled as long as it can run;
\* every request of a cycle returns and a wait lasts its timeout at most
SpecSyncFair == SpecSync /\ WF_vars(Worker)

\* the sync engine's wait and the two timer requests
NextTimers == Worker \/ UpdateSyncTimer \/ UpdateArchiveTimer
SpecTimers == Init /\ [][NextTimers]_vars

\* the sync engine and generate_intel
NextIntel == Worker \/ GenerateIntel
SpecIntel == Init /\ [][NextIntel]_vars

\* the sync engine and auto_archive
NextArchive == Worker \/ AutoArchive
SpecArchive == Init /\ [][NextArchive]_vars

\* add_log in its four threads and a reader of the log
NextLog == LogAppend \/ LogTrim \/ LogReader
SpecLog == Init /\ [][NextLog]_vars

\* get_deep_summary called while the model loader runs
NextSummary == LoadAi \/ DeepSummary
SpecSummary == Init /\ [][NextSummary]_vars

\* universal_intercept called with every url and answer of the model
NextDiscovery == DisCall \/ DisReturn
SpecDiscovery == Init /\ [][NextDiscovery]_vars

(***************************************************************************)
(* The claims.                                                             *)
(***************************************************************************)
SourcesOf(cache) == {cache[i].source : i \in 1..Len(cache)}
JustPublished == w_pc \in {"enter_wait", "waiting", "woken"}

\* C1: what a reader gets from one read of INTEL_CACHE is, at every moment
\* and so at every point of a running cycle, the snapshot the last
\* completed cycle published (the empty one before the first), whole; the
\* buffer being filled is never visible in it.
Thm_C1 ==
    /\ INTEL_CACHE = last_published
    /\ fetch_phase # "none" => fetch_seen = fetch_expected
    /\ w_pc \in Running => publishes = 0

\* C1 witness: a reader sampled a non-empty snapshot inside a cycle whose
\* buffer is partly filled and of another length.
Witness_C1 ==
    /\ w_pc = "synth"
    /\ fetch_phase = "synth"
    /\ fetch_seen # <<>>
    /\ fetch_seen = INTEL_CACHE
    /\ temp_cache # <<>>
    /\ Len(temp_cache) # Len(fetch_seen)

\* C2: the snapshot a cycle publishes holds only items of the outlets of
\* the registry as it was copied, and every (outlet, section) of that copy
\* was processed, whatever add_paper and delete_paper did meanwhile.
Thm_C2 ==
    JustPublished =>
        /\ SourcesOf(INTEL_CACHE) \subseteq GridNames(current_targets)
        /\ processed = AllPairs(current_targets)

\* C2 witness: a cycle has published items of an outlet deleted while it
\* ran, and none of the outlet added while it ran.
Witness_C2 ==
    /\ w_pc = "enter_wait"
    /\ edited_in_cycle
    /\ NAME_PA \notin GridNames(TARGET_GRID)
    /\ NAME_PA \in SourcesOf(INTEL_CACHE)
    /\ NAME_BBC \in GridNames(TARGET_GRID)
    /\ NAME_BBC \notin GridNames(current_targets)

\* C3 as stated: a wait that ends after N >= 1 force_sync calls since the
\* wake before it ends on the trigger (the N calls give exactly one extra
\* cycle).
Claim_C3 ==
    (last_wake.by # "none" /\ last_wake.since >= 1) => last_wake.by = "trigger"

\* C3 amended: a wait ends on the trigger exactly when one or more
\* force_sync calls came after the clear that followed the wake before it;
\* however many they were, they give that one wake, and calls that all
\* fell between a wake and its clear give none.
Thm_C3 ==
    last_wake.by # "none" =>
        /\ (last_wake.by = "trigger") = (last_wake.after >= 1)
        /\ last_wake.after <= last_wake.since

\* C3 witness: two calls after the clear, one wake on the trigger.
Witness_C3 ==
    /\ w_pc = "woken"
    /\ last_wake.by = "trigger"
    /\ last_wake.after = 2

\* C4: no failure of discovery or summarization stops the engine: no
\* exception leaves universal_intercept, get_deep_summary or the loop that
\* calls them, so every cycle goes on to publish and to wait.
Claim_C4 == w_pc # "dead"

\* C5: a force_sync changes nothing of the cycle in flight (position, copy,
\* candidates, buffer, published snapshot), and a cycle during which one
\* arrived still processes every pair of its copy and publishes once.
ForceSyncStep == calls_since_wake' = calls_since_wake + 1
Thm_C5 ==
    /\ [][ForceSyncStep => UNCHANGED <<cycleVars, INTEL_CACHE>>]_vars
    /\ [](forced_in_cycle /\ w_pc = "enter_wait" =>
              /\ processed = AllPairs(current_targets)
              /\ publishes = 1
              /\ INTEL_CACHE = temp_cache)

\* C5 witness: a cycle that was forced while running has published, with
\* all three sections of its copy processed.
Witness_C5 ==
    /\ forced_in_cycle
    /\ w_pc = "enter_wait"
    /\ Len(processed) = 3
    /\ INTEL_CACHE # <<>>

\* C6: a wait that ends on the timeout has lasted the interval that was set
\* when it began, whatever update_sync_timer set meanwhile; no wait lasts
\* longer; update_sync_timer leaves the waiting engine and its timeout as
\* they are, and each wait begins with the interval then set.
Thm_C6 ==
    /\ [](w_pc = "waiting" =>
              /\ wait_timeout = timer_at_wait * SecondsPerMinute
              /\ elapsed <= wait_timeout
              /\ ~interval_changed => timer_at_wait = SYNC_INTERVAL_MINS)
    /\ [](last_wake.by = "timeout" =>
              last_wake.elapsed = last_wake.timer * SecondsPerMinute)
    /\ [](last_wake.by = "trigger" =>
              last_wake.elapsed <= last_wake.timer * SecondsPerMinute)
    /\ [][SYNC_INTERVAL_MINS' # SYNC_INTERVAL_MINS =>
              UNCHANGED <<w_pc, wait_timeout, elapsed>>]_vars

\* C6 witness: a wait ended on the timeout after the interval had been
\* changed during it.
Witness_C6 ==
    /\ w_pc = "woken"
    /\ last_wake.by = "timeout"
    /\ last_wake.changed
    /\ SYNC_INTERVAL_MINS # last_wake.timer

\* C7: both timer requests answer success and set the interval to the
\* minutes asked for, or to 1 when that is less; the sync interval is at
\* least 1 in every state.
Thm_C7 ==
    /\ SYNC_INTERVAL_MINS >= 1
    /\ archive_interval >= 1
    /\ timer_req.op = "sync" =>
           /\ timer_req.status = "success"
           /\ SYNC_INTERVAL_MINS =
                  IF timer_req.minutes < 1 THEN 1 ELSE timer_req.minutes
    /\ timer_req.op = "archive" =>
           /\ timer_req.status = "success"
           /\ archive_interval =
                  IF timer_req.minutes < 1 THEN 1 ELSE timer_req.minutes

\* C7 witness: a negative sync interval was asked for and 1 was set.
Witness_C7 ==
    /\ timer_req.op = "sync"
    /\ timer_req.minutes < 0
    /\ SYNC_INTERVAL_MINS = 1

\* C8: what a reader of SYSTEM_LOGS observes holds at most 30 entries, in
\* append order, and the entry a pop removed is older than all it left.
Claim_C8 ==
    /\ Len(logs_seen) <= LogCapacity
    /\ \A i, j \in 1..Len(logs_seen) : i < j => logs_seen[i] < logs_seen[j]
    /\ \A i \in 1..Len(SYSTEM_LOGS) : log_evicted < SYSTEM_LOGS[i]

\* C9: the report generate_intel is about to save is the report of one
\* snapshot among those it read: all its sections come from the same one.
Claim_C9 ==
    gen_pc = "save" =>
        \E cache \in gen_reads : gen_doc = ReportOf(cache, gen_args)

\* C10: a report auto_archive saved holds at least one item.
Claim_C10 == arc_saved.written => arc_saved.items > 0

(***************************************************************************)
(* Claims about universal_intercept.                                       *)
(***************************************************************************)
Returned == dis_pc = "returned" /\ ~dis_out.raised
DistinctLinks(news) ==
    \A i, j \in 1..Len(news) : i < j => news[i].link # news[j].link

\* C11: a call of universal_intercept returns at most 6 candidates, and no
\* two of them have the same link, whatever the url and whatever the API
\* and the page answer.
Claim_C11 ==
    Returned =>
        /\ Len(dis_out.news) <= DiscoveryCap
        /\ DistinctLinks(dis_out.news)

\* a call that scanned a page whose only anchor has the text dis_in.text
TextCall == dis_pc = "returned" /\ dis_in.text # NoText /\ dis_out.scanned
Accepted == \E k \in 1..Len(dis_out.news) : dis_out.news[k].link.path = "t1"

\* C12 as stated: the anchor is accepted exactly when its text is longer
\* than 35 characters and has at least 4 words.
Claim_C12 ==
    TextCall =>
        (Accepted <=> TextLen(dis_in.text) > 35 /\ TextWords(dis_in.text) >= 4)

\* C12 amended: the anchor is accepted exactly when its text is longer than
\* 35 characters and holds at least 4 blanks; the words are not counted.
Thm_C12 ==
    TextCall =>
        (Accepted <=> TextLen(dis_in.text) > 35 /\ TextSpaces(dis_in.text) >= 4)

\* C12 witness: a text of 36 characters and exactly 4 words, one blank
\* apart, was scanned and rejected.
Witness_C12 ==
    /\ TextCall
    /\ TextLen(dis_in.text) = 36
    /\ TextWords(dis_in.text) = 4
    /\ TextSpaces(dis_in.text) = 3
    /\ ~Accepted

\* C13: a text of exactly 35 characters is rejected whatever its blanks, one
\* of 36 characters and 4 blanks is accepted, one of 36 and 3 is rejected.
Thm_C13 ==
    TextCall =>
        /\ TextLen(dis_in.text) = 35 => ~Accepted
        /\ TextLen(dis_in.text) = 36 /\ TextSpaces(dis_in.text) = 4 => Accepted
        /\ TextLen(dis_in.text) = 36 /\ TextSpaces(dis_in.text) = 3 => ~Accepted

\* C13 witness: a text of 36 characters and 4 blanks was scanned and
\* accepted.
Witness_C13 ==
    /\ TextCall
    /\ TextLen(dis_in.text) = 36
    /\ TextSpaces(dis_in.text) = 4
    /\ Accepted

(***************************************************************************)
(* Claims about get_deep_summary and the model's readiness.                *)
(***************************************************************************)
\* C14: every call of get_deep_summary made while is_model_ready is false
\* returns the 'initializing' sentinel with no request and no call of the
\* model; the item carrying it is in the buffer, and the buffer of a
\* cycle that has come to line 150 is what is published.
Thm_C14 ==
    /\ Len(runs) = Len(temp_cache)
    /\ \A i \in 1..Len(runs) :
         ~runs[i].ready =>
             /\ runs[i].run.ret = SENTINEL_INIT
             /\ runs[i].run.fetches = 0
             /\ runs[i].run.calls = 0
             /\ temp_cache[i].summary = SENTINEL_INIT
    /\ JustPublished => INTEL_CACHE = temp_cache

\* C14 witness: loading failed, and a cycle all of whose calls found the
\* flag false has published its items, each with the sentinel.
Witness_C14 ==
    /\ w_pc = "enter_wait"
    /\ load_pc = "failed"
    /\ runs # <<>>
    /\ Len(INTEL_CACHE) = Len(runs)
    /\ \A i \in 1..Len(runs) :
         ~runs[i].ready /\ INTEL_CACHE[i].summary = SENTINEL_INIT

\* the length of the first at most 8 paragraphs joined by single blanks
First8Len(paras) ==
    JoinedLen(paras, IF Len(paras) < 8 THEN Len(paras) ELSE 8)
SummaryDone == sum_pc = "returned" /\ sum_ready /\ sum_art.ok

\* C15: with the model ready and the page fetched, a joined text of 199
\* characters or fewer gives the 'insufficient data' sentinel and no call of
\* the model; one of 200 or more gives exactly one call, on the first 2500
\* characters of the text at most.
Thm_C15 ==
    SummaryDone =>
        LET txt == First8Len(sum_art.paras)
        IN /\ txt <= 199 =>
                 sum_run.ret = SENTINEL_THIN /\ sum_run.calls = 0
           /\ txt >= 200 =>
                 /\ sum_run.ret # SENTINEL_THIN
                 /\ sum_run.calls = 1
                 /\ sum_run.input <= 2500
                 /\ sum_run.input = IF txt < 2500 THEN txt ELSE 2500

\* C15 witness: a text of exactly 200 characters was summarized by one call
\* of the model.
Witness_C15 ==
    /\ SummaryDone
    /\ First8Len(sum_art.paras) = 200
    /\ sum_run.calls = 1
    /\ sum_run.ret = ModelSummary(200)

\* C19: whenever is_model_ready is true summarizer holds the loaded model;
\* the flag never goes back to false; once loading has raised the flag is
\* false for good; no call of get_deep_summary, whenever load_ai's steps
\* fall, calls a summarizer that is None.
Thm_C19 ==
    /\ [](is_model_ready => summarizer = "pipeline")
    /\ [][is_model_ready => is_model_ready']_vars
    /\ [](load_pc = "failed" => ~is_model_ready)
    /\ [][load_pc = "failed" => load_pc' = "failed"]_vars
    /\ [](sum_run.calls > 0 => ~sum_run.unset /\ sum_ready)

\* C19 witness: a call that found the flag set has called the loaded model.
Witness_C19 ==
    /\ sum_pc = "returned"
    /\ is_model_ready
    /\ summarizer = "pipeline"
    /\ sum_run.calls = 1
    /\ sum_run.ret.kind = "summary"

(***************************************************************************)
(* Claims about what a cycle publishes.                                    *)
(***************************************************************************)
\* C16: INTEL_CACHE is written by the step of line 150 only, once in a
\* cycle, after every pair of the cycle's copy was processed (a discovery
\* that gave nothing included), and with the cycle's buffer; the engine
\* begins to wait only after that step.
Thm_C16 ==
    /\ [][INTEL_CACHE' # INTEL_CACHE \/ publishes' > publishes =>
              /\ w_pc = "publish" /\ w_pc' = "enter_wait"
              /\ processed = AllPairs(current_targets)
              /\ Len(discovered) = Len(processed)
              /\ publishes = 0
              /\ INTEL_CACHE' = temp_cache]_vars
    /\ [](publishes <= 1)
    /\ [][w_pc' = "waiting" /\ w_pc # "waiting" =>
              w_pc = "enter_wait" /\ publishes = 1]_vars
    /\ [](w_pc = "waiting" =>
              /\ publishes = 1
              /\ INTEL_CACHE = temp_cache
              /\ processed = AllPairs(current_targets))

\* C16 witness: a cycle in which one discovery gave nothing and another
\* gave candidates has published and waits.
Witness_C16 ==
    /\ w_pc = "waiting"
    /\ publishes = 1
    /\ INTEL_CACHE # <<>>
    /\ \E i \in 1..Len(discovered) : discovered[i] = <<>>
    /\ Len(processed) >= 3

\* the first at most 3 candidates of the i-th pair, as items without summary
FirstThree(i) ==
    LET news == discovered[i]
        n == IF Len(news) < 3 THEN Len(news) ELSE 3
    IN [k \in 1..n |-> [source |-> processed[i][1],
                        sector |-> processed[i][2],
                        title |-> news[k].title, link |-> news[k].link]]
RECURSIVE FirstThrees(_)
FirstThrees(i) == IF i = 0 THEN <<>> ELSE FirstThrees(i - 1) \o FirstThree(i)
Unsummarized(cache) ==
    [k \in 1..Len(cache) |-> [source |-> cache[k].source,
                              sector |-> cache[k].sector,
                              title |-> cache[k].title,
                              link |-> cache[k].link]]

\* C17: a published snapshot is, pair after pair in the order of the
\* registry copy, the first min(3, n) of the n candidates discovery returned
\* for the pair, in discovery order: at most 3 items for a pair; and
\* get_deep_summary was called once for each item, on its link.
Thm_C17 ==
    JustPublished =>
        /\ processed = AllPairs(current_targets)
        /\ Len(discovered) = Len(processed)
        /\ Unsummarized(INTEL_CACHE) = FirstThrees(Len(processed))
        /\ \A i \in 1..Len(processed) :
             Cardinality({k \in 1..Len(INTEL_CACHE) :
                             /\ INTEL_CACHE[k].source = processed[i][1]
                             /\ INTEL_CACHE[k].sector = processed[i][2]}) <= 3
        /\ Len(runs) = Len(INTEL_CACHE)
        /\ \A k \in 1..Len(runs) :
             /\ runs[k].link = INTEL_CACHE[k].link
             /\ runs[k].run.ret = INTEL_CACHE[k].summary

\* C17 witness: discovery returned 4 candidates for a pair and the
\* published snapshot holds the first 3 of them.
Witness_C17 ==
    /\ JustPublished
    /\ \E i \in 1..Len(discovered) :
         /\ Len(discovered[i]) = 4
         /\ Cardinality({k \in 1..Len(INTEL_CACHE) :
                            /\ INTEL_CACHE[k].source = processed[i][1]
                            /\ INTEL_CACHE[k].sector = processed[i][2]}) = 3

(***************************************************************************)
(* Claims about the manual trigger, continued.                             *)
(***************************************************************************)
\* C18: a force_sync call, wherever the engine is when it is made, is
\* followed in the end by a cycle that copies the registry after the call
\* and publishes (tracked_call follows one call: "called" until a copy is
\* taken, "copied" until that cycle's line 150, then "none").
Claim_C18 == (tracked_call # "none") ~> (tracked_call = "none")

(***************************************************************************)
(* Claims about universal_intercept, continued.                            *)
(***************************************************************************)
\* C20: what a call returns comes from one path: the API loop appended all
\* of it or none of it, never a part.
Claim_C20 ==
    Returned => dis_out.from_api \in {0, Len(dis_out.news)}

====
